---- MODULE Spec2Model ----
(***************************************************************************)
(* A model of the Jungle engine of jungle.py: a parent directory holding   *)
(* release/<version> directories, the symbolic link `current` and the      *)
(* staging name `current.new`.  The file system is modelled by what the    *)
(* os / os.path / shutil calls of the engine can observe and change.       *)
(***************************************************************************)
EXTENDS Integers, Sequences, FiniteSets, TLC

VARIABLES
    release,      \* TRUE iff <parent>/release exists (a directory)
    entries,      \* the names of the directories directly inside release/
    current,      \* what is at <parent>/current: [kind, target]
    current_new,  \* what is at <parent>/current.new: [kind, target]
    last,         \* the last engine call: its name, arguments and outcome
    initialised,  \* history: an initialise() call has returned normally
    pc,           \* position inside _set when its two steps are observed
    deleting      \* a delete() of a second process between its checks and
                  \* its rmtree: [pc, version, seen, hit]

vars == <<release, entries, current, current_new, last, initialised, pc, deleting>>

(***************************************************************************)
(* Names and versions.                                                     *)
(***************************************************************************)

\* Largest age in days (and largest --age threshold) that is enumerated.
MaxAge == 1

\* Largest --iterations argument that is enumerated (the smallest is -1).
MaxIter == 2

\* The names that may appear inside release/, in the order sorted() gives
\* a list of str (byte-wise): "1.0" is a prefix of the next two, "." < "b".
NameOrder == <<"1.0", "1.0.0", "1.0b3", "2.0", "bin">>

Names == {NameOrder[i] : i \in 1..Len(NameOrder)}

\* The result of a StrictVersion(...) call that raised ValueError.
NoVersion == [version |-> <<>>, prerelease |-> <<>>]

\* StrictVersion.parse: (\d+).(\d+)(.(\d+))?([ab](\d+))?  -> version is the
\* 3-tuple of ints (patch defaults to 0), prerelease is (letter, int) or None.
StrictVersion(s) ==
    CASE s = "1.0"   -> [version |-> <<1, 0, 0>>, prerelease |-> <<>>]
      [] s = "1.0.0" -> [version |-> <<1, 0, 0>>, prerelease |-> <<>>]
      [] s = "1.0b3" -> [version |-> <<1, 0, 0>>, prerelease |-> <<"b", 3>>]
      [] s = "2.0"   -> [version |-> <<2, 0, 0>>, prerelease |-> <<>>]
      [] OTHER       -> NoVersion

\* StrictVersion.__str__: the patch number is dropped when it is 0.
str(v) ==
    LET nums == IF v.version[3] = 0
                THEN ToString(v.version[1]) \o "." \o ToString(v.version[2])
                ELSE ToString(v.version[1]) \o "." \o ToString(v.version[2])
                     \o "." \o ToString(v.version[3])
    IN  IF v.prerelease = <<>>
        THEN nums
        ELSE nums \o v.prerelease[1] \o ToString(v.prerelease[2])

\* cmp() of two tuples of ints of the same length.
RECURSIVE CmpInts(_, _)
CmpInts(a, b) ==
    IF a = <<>> THEN 0
    ELSE IF Head(a) < Head(b) THEN -1
    ELSE IF Head(a) > Head(b) THEN 1
    ELSE CmpInts(Tail(a), Tail(b))

LetterRank(c) == IF c = "a" THEN 0 ELSE 1

\* StrictVersion.__cmp__: the numbers first; then a version without
\* prerelease is greater than the same numbers with one.
Cmp(a, b) ==
    LET c == CmpInts(a.version, b.version)
    IN  IF c # 0 THEN c
        ELSE IF a.prerelease = <<>> /\ b.prerelease = <<>> THEN 0
        ELSE IF a.prerelease # <<>> /\ b.prerelease = <<>> THEN -1
        ELSE IF a.prerelease = <<>> /\ b.prerelease # <<>> THEN 1
        ELSE IF LetterRank(a.prerelease[1]) # LetterRank(b.prerelease[1])
             THEN (IF LetterRank(a.prerelease[1]) < LetterRank(b.prerelease[1])
                   THEN -1 ELSE 1)
        ELSE CmpInts(<<a.prerelease[2]>>, <<b.prerelease[2]>>)

(***************************************************************************)
(* The file system as the engine sees it.                                  *)
(***************************************************************************)

None == [kind |-> "none", target |-> ""]
Link(t) == [kind |-> "link", target |-> t]

\* Link targets that are enumerated: release/<name>, and two that do not
\* start with "release/" (one that resolves, one that does not), and
\* "release/" itself.
Targets == {"release/" \o n : n \in Names} \cup {"release/", "release", "nowhere"}

FS == [release |-> release, entries |-> entries,
       current |-> current, current_new |-> current_new]

\* ln.startswith("release/") and ln[8:]
StartsWithRelease(ln) == \E n \in Names \cup {""} : ln = "release/" \o n
Slice8(ln) == CHOOSE n \in Names \cup {""} : ln = "release/" \o n

\* Whether a path relative to <parent> resolves to something (a directory,
\* in every case enumerated here).
Resolves(fs, t) ==
    \/ t \in {"release", "release/"} /\ fs.release
    \/ \E n \in Names : t = "release/" \o n /\ fs.release /\ n \in fs.entries

\* os.path.exists follows symbolic links: FALSE for a broken link.
path_exists(fs, node) ==
    CASE node.kind = "none" -> FALSE
      [] node.kind = "link" -> Resolves(fs, node.target)
      [] OTHER -> TRUE

path_islink(node) == node.kind = "link"

\* Mutant of exists: only the release directory itself is looked at.
exists_release_only(fs, version) == fs.release

\* Jungle.exists: os.path.isdir(self.path(str(version)))
exists(fs, version) == fs.release /\ str(version) \in fs.entries

(***************************************************************************)
(* Outcomes of a call: the file system it leaves, the exception it raised  *)
(* ("none" when it returned) and the value it returned.                    *)
(***************************************************************************)

Return(fs, v, out) == [fs |-> fs, exc |-> "none", msg |-> "", ret |-> v, out |-> out]
Raise(fs, exc, msg) == [fs |-> fs, exc |-> exc, msg |-> msg, ret |-> NoVersion, out |-> ""]

\* Jungle.versions: the names of sorted(os.listdir(release)) that parse.
RECURSIVE ListFrom(_, _)
ListFrom(fs, i) ==
    IF i > Len(NameOrder) THEN <<>>
    ELSE (IF NameOrder[i] \in fs.entries /\ StrictVersion(NameOrder[i]) # NoVersion
          THEN <<StrictVersion(NameOrder[i])>> ELSE <<>>) \o ListFrom(fs, i + 1)

versions(fs) == ListFrom(fs, 1)

\* max() of a non-empty list: the first of the greatest elements.
RECURSIVE MaxOf(_)
MaxOf(s) ==
    IF Len(s) = 1 THEN s[1]
    ELSE LET m == MaxOf(Tail(s)) IN IF Cmp(m, s[1]) > 0 THEN m ELSE s[1]

\* sorted(): ascending and stable; the element at index j of s goes
\* after the elements that are lower and after the equal ones listed
\* before it.
sorted(s) ==
    [i \in 1..Len(s) |->
       s[CHOOSE j \in 1..Len(s) :
           Cardinality({k \in 1..Len(s) :
                          \/ Cmp(s[k], s[j]) < 0
                          \/ Cmp(s[k], s[j]) = 0 /\ k < j}) = i - 1]]

\* Mutant of head: the last version that versions() yields is returned,
\* not the maximum.
head_last_listed(fs) ==
    IF ~fs.release THEN Raise(fs, "OSError", "listdir")
    ELSE IF versions(fs) = <<>> THEN Raise(fs, "ValueError", "max of empty sequence")
    ELSE Return(fs, versions(fs)[Len(versions(fs))], "")

\* Jungle.head: max(self.versions()); ValueError on an empty sequence.
head(fs) ==
    IF ~fs.release THEN Raise(fs, "OSError", "listdir")
    ELSE IF versions(fs) = <<>> THEN Raise(fs, "ValueError", "max of empty sequence")
    ELSE Return(fs, MaxOf(versions(fs)), "")

\* Jungle.oldest: sorted(self.versions())[0]; IndexError on an empty list.
oldest(fs) ==
    IF ~fs.release THEN Raise(fs, "OSError", "listdir")
    ELSE IF versions(fs) = <<>> THEN Raise(fs, "IndexError", "list index out of range")
    ELSE Return(fs, sorted(versions(fs))[1], "")

\* Jungle.check_current (also bound to current_version).
check_current(fs) ==
    IF ~path_exists(fs, fs.current)
    THEN Raise(fs, "OSError", "No current exists")
    ELSE IF ~path_islink(fs.current)
    THEN Raise(fs, "OSError", "is not a symlink")
    ELSE IF ~StartsWithRelease(fs.current.target)
    THEN Raise(fs, "OSError", "does not point to something in release")
    ELSE IF StrictVersion(Slice8(fs.current.target)) = NoVersion
    THEN Raise(fs, "OSError", "does not point to a valid version")
    ELSE IF ~exists(fs, StrictVersion(Slice8(fs.current.target)))
    \* "..." % current with no conversion in the string raises TypeError
    THEN Raise(fs, "TypeError", "not all arguments converted")
    ELSE Return(fs, StrictVersion(Slice8(fs.current.target)), "")

\* os.symlink(target, current.new): EEXIST when the name is taken.
os_symlink(fs, t) ==
    IF fs.current_new.kind # "none"
    THEN Raise(fs, "OSError", "File exists")
    ELSE Return([fs EXCEPT !.current_new = Link(t)], NoVersion, "")

\* os.rename(current.new, current): replaces anything but a directory.
os_rename(fs) ==
    IF fs.current.kind = "dir"
    THEN Raise(fs, "OSError", "Is a directory")
    ELSE Return([fs EXCEPT !.current = fs.current_new, !.current_new = None],
                NoVersion, "")

\* Mutant of _set_symlink: the existence check is left out.
_set_symlink_unchecked(fs, version) ==
    os_symlink(fs, "release/" \o str(version))

\* Mutant of _set_symlink: `current` is unlinked before the new link is staged.
_set_symlink_unlink_first(fs, version) ==
    IF ~exists(fs, version)
    THEN Raise(fs, "KeyError", "does not exist")
    ELSE os_symlink([fs EXCEPT !.current = None], "release/" \o str(version))

\* Jungle._set up to and including os.symlink (lines 81-83).
_set_symlink(fs, version) ==
    IF ~exists(fs, version)
    THEN Raise(fs, "KeyError", "does not exist")
    ELSE os_symlink(fs, "release/" \o str(version))

\* Jungle._set: the symlink, then os.rename(current.new, current).
_set(fs, version) ==
    LET s == _set_symlink(fs, version)
    IN  IF s.exc # "none" THEN s ELSE os_rename(s.fs)

\* The ways in which a system call of _set can fail for a reason of the
\* environment (permissions, read-only or full file system, I/O error).
Faults == {"symlink fails", "rename fails"}

\* Mutant of _set_failing: `current` is unlinked before the new link is
\* staged.
_set_failing_unlink_first(fault, fs, version) ==
    IF ~exists(fs, version)
    THEN Raise(fs, "KeyError", "does not exist")
    ELSE IF fault = "symlink fails"
    THEN Raise([fs EXCEPT !.current = None], "OSError", "Permission denied")
    ELSE LET s == os_symlink([fs EXCEPT !.current = None], "release/" \o str(version))
         IN  IF s.exc # "none" THEN s
             ELSE Raise(s.fs, "OSError", "Operation not permitted")

\* Jungle._set when the environment makes os.symlink or os.rename raise
\* OSError: a system call that fails changes nothing, and the exception
\* leaves _set at once.
_set_failing(fault, fs, version) ==
    IF ~exists(fs, version)
    THEN Raise(fs, "KeyError", "does not exist")
    ELSE IF fault = "symlink fails"
    THEN Raise(fs, "OSError", "Permission denied")
    ELSE LET s == os_symlink(fs, "release/" \o str(version))
         IN  IF s.exc # "none" THEN s
             ELSE Raise(s.fs, "OSError", "Operation not permitted")

\* The call of _set inside an engine operation, run to its end ("rename")
\* or, when the two file system steps of _set are observed one by one, up
\* to and including os.symlink ("symlink"), or with a system call that the
\* environment makes fail (a member of Faults).
call_set(upto, fs, version) ==
    IF upto = "symlink" THEN _set_symlink(fs, version)
    ELSE IF upto \in Faults THEN _set_failing(upto, fs, version)
    ELSE _set(fs, version)

\* Jungle.set for an argument that is a StrictVersion already.
set_version(upto, fs, version) ==
    LET c == check_current(fs)
    IN  IF c.exc # "none" THEN c
        ELSE IF ~path_exists(fs, fs.current)
        THEN Raise(fs, "OSError", "No current exists")
        ELSE LET r == call_set(upto, fs, version)
             IN  IF r.exc # "none" THEN r ELSE Return(r.fs, version, "")

\* Jungle.set for a str argument: StrictVersion(version) after check_current.
set_str(upto, fs, arg) ==
    LET c == check_current(fs)
    IN  IF c.exc # "none" THEN c
        ELSE IF StrictVersion(arg) = NoVersion
        THEN Raise(fs, "ValueError", "invalid version number")
        ELSE set_version(upto, fs, StrictVersion(arg))

set(fs, arg) == set_str("rename", fs, arg)

\* Jungle.initialise
initialise_with(upto, fs) ==
    IF path_exists(fs, fs.current)
    THEN Raise(fs, "SystemExit", "Current already exists")
    ELSE IF ~fs.release
    THEN Raise(fs, "SystemExit", "No release directory exists")
    ELSE IF head(fs).exc = "ValueError"
    THEN Raise(fs, "SystemExit", "No versions in directory")
    ELSE call_set(upto, fs, head(fs).ret)

initialise(fs) == initialise_with("rename", fs)

\* shutil.rmtree(self.path(version))
rmtree(fs, version) == [fs EXCEPT !.entries = fs.entries \ {str(version)}]

\* Mutant of delete_version: the comparison with the current version is left out.
delete_version_nocheck(fs, version) ==
    LET c == check_current(fs)
    IN  IF c.exc # "none" THEN c
        ELSE IF ~exists(fs, version)
        THEN Raise(fs, "KeyError", "does not exist")
        ELSE Return(rmtree(fs, version), NoVersion, "")

\* Jungle.delete for an argument that is a StrictVersion already.
delete_version(fs, version) ==
    LET c == check_current(fs)
    IN  IF c.exc # "none" THEN c
        ELSE IF ~exists(fs, version)
        THEN Raise(fs, "KeyError", "does not exist")
        ELSE IF ~path_exists(fs, fs.current)
        THEN Raise(fs, "OSError", "No current exists")
        ELSE IF Cmp(version, check_current(fs).ret) = 0
        THEN Raise(fs, "OSError", "Will not delete current version")
        ELSE Return(rmtree(fs, version), NoVersion, "")

\* Mutant of delete: the argument is compared with the link's text, not as a version.
delete_by_name(fs, arg) ==
    LET c == check_current(fs)
    IN  IF c.exc # "none" THEN c
        ELSE IF StrictVersion(arg) = NoVersion
        THEN Raise(fs, "ValueError", "invalid version number")
        ELSE IF ~exists(fs, StrictVersion(arg))
        THEN Raise(fs, "KeyError", "does not exist")
        ELSE IF fs.current.target = "release/" \o arg
        THEN Raise(fs, "OSError", "Will not delete current version")
        ELSE Return(rmtree(fs, StrictVersion(arg)), NoVersion, "")

\* Jungle.delete for a str argument.
delete(fs, arg) ==
    LET c == check_current(fs)
    IN  IF c.exc # "none" THEN c
        ELSE IF StrictVersion(arg) = NoVersion
        THEN Raise(fs, "ValueError", "invalid version number")
        ELSE delete_version(fs, StrictVersion(arg))

\* Jungle.upgrade
\* Mutant of upgrade_with: the version that `current` leaves is removed.
upgrade_with_cleanup(upto, fs) ==
    LET c == check_current(fs)
    IN  IF c.exc # "none" THEN c
        ELSE IF head(fs).exc # "none" THEN head(fs)
        ELSE LET r == set_version(upto, fs, head(fs).ret)
             IN  IF r.exc # "none" \/ Cmp(c.ret, head(fs).ret) = 0 THEN r
                 ELSE [r EXCEPT !.fs = rmtree(r.fs, c.ret)]

upgrade_with(upto, fs) ==
    LET c == check_current(fs)
    IN  IF c.exc # "none" THEN c
        ELSE IF head(fs).exc # "none" THEN head(fs)
        ELSE set_version(upto, fs, head(fs).ret)

upgrade(fs) == upgrade_with("rename", fs)

\* Mutant of degrade_with: a dry run reports the highest version, not the
\* last but one.
degrade_with_dry_head(upto, fs, dry_run) ==
    LET c == check_current(fs)
        v == versions(fs)
        previous == sorted(v)[Len(v) - 1]
    IN  IF c.exc # "none" THEN c
        ELSE IF Len(v) < 2
        THEN Raise(fs, "ValueError", "Not enough versions to rollback")
        ELSE IF dry_run THEN Return(fs, NoVersion, str(sorted(v)[Len(v)]))
        ELSE LET r == set_version(upto, fs, previous)
             IN  IF r.exc # "none" THEN r ELSE Return(r.fs, NoVersion, str(previous))

\* Jungle.degrade
degrade_with(upto, fs, dry_run) ==
    LET c == check_current(fs)
        v == versions(fs)
        previous == sorted(v)[Len(v) - 1]
    IN  IF c.exc # "none" THEN c
        ELSE IF Len(v) < 2
        THEN Raise(fs, "ValueError", "Not enough versions to rollback")
        ELSE IF dry_run THEN Return(fs, NoVersion, str(previous))
        ELSE LET r == set_version(upto, fs, previous)
             IN  IF r.exc # "none" THEN r ELSE Return(r.fs, NoVersion, str(previous))

degrade(fs, dry_run) == degrade_with("rename", fs, dry_run)

\* Mutant of status: the current version is compared with the oldest
\* version, not with the head.
status_vs_oldest(fs) ==
    LET c == check_current(fs)
    IN  IF c.exc # "none" THEN c
        ELSE IF oldest(fs).exc # "none" THEN oldest(fs)
        ELSE IF Cmp(c.ret, oldest(fs).ret) = 0 THEN Return(fs, NoVersion, "current")
        ELSE Return(fs, NoVersion, "degraded")

\* Jungle.status
status(fs) ==
    LET c == check_current(fs)
    IN  IF c.exc # "none" THEN c
        ELSE IF head(fs).exc # "none" THEN head(fs)
        ELSE IF Cmp(c.ret, head(fs).ret) = 0 THEN Return(fs, NoVersion, "current")
        ELSE Return(fs, NoVersion, "degraded")

\* The names Jungle.age can be asked about: path(version) is release/str(version).
StatNames == {str(StrictVersion(n)) : n \in {m \in Names : StrictVersion(m) # NoVersion}}

\* The loop of Jungle.prune_age over the versions listed when it started;
\* days[name] is what Jungle.age computes for release/<name>, and os.stat
\* raises OSError when that directory is not there.
RECURSIVE prune_age_loop(_, _, _, _)
prune_age_loop(fs, vs, age, days) ==
    IF vs = <<>> THEN Return(fs, NoVersion, "")
    ELSE LET v == Head(vs)
             c == check_current(fs)
         IN  IF c.exc # "none" THEN c
             ELSE IF Cmp(v, c.ret) = 0 THEN prune_age_loop(fs, Tail(vs), age, days)
             ELSE IF ~exists(fs, v)
             THEN Raise(fs, "OSError", "No such file or directory")
             ELSE IF days[str(v)] > age
             THEN LET d == delete_version(fs, v)
                  IN  IF d.exc # "none" THEN d
                      ELSE prune_age_loop(d.fs, Tail(vs), age, days)
             ELSE prune_age_loop(fs, Tail(vs), age, days)

\* Mutant of prune_age: the check_current call at its start is left out.
prune_age_nocheck(fs, age, days) ==
    prune_age_loop(fs, versions(fs), age, days)

\* Jungle.prune_age
prune_age(fs, age, days) ==
    LET c == check_current(fs)
    IN  IF c.exc # "none" THEN c
        ELSE prune_age_loop(fs, versions(fs), age, days)

\* The while loop of Jungle.prune_iterations.
RECURSIVE prune_iterations_loop(_, _)
prune_iterations_loop(fs, n) ==
    IF ~(Len(versions(fs)) > n) THEN Return(fs, NoVersion, "")
    ELSE IF check_current(fs).exc # "none" THEN check_current(fs)
    ELSE IF Cmp(oldest(fs).ret, check_current(fs).ret) = 0
    THEN Raise(fs, "OSError", "I won't delete the current version")
    ELSE LET d == delete_version(fs, oldest(fs).ret)
         IN  IF d.exc # "none" THEN d ELSE prune_iterations_loop(d.fs, n)

\* One evaluation of the while condition of Jungle.prune_iterations and,
\* when it holds, one run of the loop body; o is what self.oldest() returns
\* in this iteration (both of its calls, nothing else touching release/).
prune_iterations_step(fs, n, o) ==
    IF ~(Len(versions(fs)) > n) THEN Return(fs, NoVersion, "")
    ELSE IF check_current(fs).exc # "none" THEN check_current(fs)
    ELSE IF Cmp(o.ret, check_current(fs).ret) = 0
    THEN Raise(fs, "OSError", "I won't delete the current version")
    ELSE delete_version(fs, o.ret)

\* Jungle.prune_iterations
prune_iterations(fs, n) ==
    LET c == check_current(fs)
    IN  IF c.exc # "none" THEN c
        ELSE prune_iterations_loop(fs, n)

(***************************************************************************)
(* The state machine: one action per engine call.                          *)
(***************************************************************************)

CurrentStates ==
    {None, [kind |-> "file", target |-> ""], [kind |-> "dir", target |-> ""]}
    \cup {Link(t) : t \in Targets}

\* days: the ages Jungle.age reads during a prune_age call; list: the
\* versions a versions() call yields, in the order it yields them.
NoCall == [op |-> "none", arg |-> "", n |-> 0, exc |-> "none", msg |-> "",
           ret |-> NoVersion, out |-> "",
           days |-> [x \in StatNames |-> 0], list |-> <<>>]

Call(op, arg, n, r) ==
    [NoCall EXCEPT !.op = op, !.arg = arg, !.n = n, !.exc = r.exc, !.msg = r.msg,
                   !.ret = r.ret, !.out = r.out]

\* Any jungle directory a Jungle object can be constructed on, including
\* hand-made ones; release/ holds entries only when it exists.
\* No delete() is under way in a second process.
NoDelete == [pc |-> "idle", version |-> NoVersion, seen |-> NoVersion, hit |-> FALSE]

Init ==
    /\ release \in BOOLEAN
    /\ entries \in SUBSET Names
    /\ (~release => entries = {})
    /\ current \in CurrentStates
    /\ current_new \in {None, Link("release/1.0")}
    /\ last = NoCall
    /\ initialised = FALSE
    /\ pc = "idle"
    /\ deleting = NoDelete

Apply(r) ==
    /\ release' = r.fs.release
    /\ entries' = r.fs.entries
    /\ current' = r.fs.current
    /\ current_new' = r.fs.current_new

Initialise ==
    /\ pc = "idle"
    /\ LET r == initialise(FS)
       IN  /\ Apply(r)
           /\ last' = Call("initialise", "", 0, r)
           /\ initialised' = (initialised \/ r.exc = "none")
    /\ UNCHANGED <<pc, deleting>>

Set ==
    /\ pc = "idle"
    /\ \E arg \in Names :
         LET r == set(FS, arg)
         IN  /\ Apply(r)
             /\ last' = Call("set", arg, 0, r)
    /\ UNCHANGED <<initialised, pc, deleting>>

Delete ==
    /\ pc = "idle"
    /\ \E arg \in Names :
         LET r == delete(FS, arg)
         IN  /\ Apply(r)
             /\ last' = Call("delete", arg, 0, r)
    /\ UNCHANGED <<initialised, pc, deleting>>

Upgrade ==
    /\ pc = "idle"
    /\ LET r == upgrade(FS)
       IN  /\ Apply(r)
           /\ last' = Call("upgrade", "", 0, r)
    /\ UNCHANGED <<initialised, pc, deleting>>

Degrade ==
    /\ pc = "idle"
    /\ \E dry_run \in BOOLEAN :
         LET r == degrade(FS, dry_run)
         IN  /\ Apply(r)
             /\ last' = Call("degrade", IF dry_run THEN "--dry-run" ELSE "", 0, r)
    /\ UNCHANGED <<initialised, pc, deleting>>

CurrentVersion ==
    /\ pc = "idle"
    /\ LET r == check_current(FS)
       IN  /\ Apply(r)
           /\ last' = Call("current_version", "", 0, r)
    /\ UNCHANGED <<initialised, pc, deleting>>

Status ==
    /\ pc = "idle"
    /\ LET r == status(FS)
       IN  /\ Apply(r)
           /\ last' = Call("status", "", 0, r)
    /\ UNCHANGED <<initialised, pc, deleting>>

\* list(j.versions()): OSError from os.listdir when release/ is missing.
QueryVersions ==
    /\ pc = "idle"
    /\ LET r == IF release THEN Return(FS, NoVersion, "") ELSE Raise(FS, "OSError", "listdir")
       IN  /\ Apply(r)
           /\ last' = [Call("versions", "", 0, r) EXCEPT
                          !.list = IF release THEN versions(FS) ELSE <<>>]
    /\ UNCHANGED <<initialised, pc, deleting>>

QueryHead ==
    /\ pc = "idle"
    /\ LET r == head(FS)
       IN  /\ Apply(r)
           /\ last' = Call("head", "", 0, r)
    /\ UNCHANGED <<initialised, pc, deleting>>

QueryOldest ==
    /\ pc = "idle"
    /\ LET r == oldest(FS)
       IN  /\ Apply(r)
           /\ last' = Call("oldest", "", 0, r)
    /\ UNCHANGED <<initialised, pc, deleting>>

PruneAge ==
    /\ pc = "idle"
    /\ \E age \in 0..MaxAge, days \in [StatNames -> 0..MaxAge] :
         \* only a directory that is there has a modification time
         /\ \A x \in StatNames \ entries : days[x] = 0
         /\ LET r == prune_age(FS, age, days)
            IN  /\ Apply(r)
                /\ last' = [Call("prune_age", "", age, r) EXCEPT !.days = days]
    /\ UNCHANGED <<initialised, pc, deleting>>

PruneIterations ==
    /\ pc = "idle"
    /\ \E n \in -1..MaxIter :
         LET r == prune_iterations(FS, n)
         IN  /\ Apply(r)
             /\ last' = Call("prune_iterations", "", n, r)
    /\ UNCHANGED <<initialised, pc, deleting>>

\* External deployment tooling: mkdir release/<name>.
AddRelease ==
    /\ release
    /\ \E n \in Names \ entries :
         /\ entries' = entries \cup {n}
         /\ last' = [NoCall EXCEPT !.op = "mkdir", !.arg = n]
    /\ UNCHANGED <<release, current, current_new, initialised, pc, deleting>>

Next ==
    \/ Initialise
    \/ Set
    \/ Delete
    \/ Upgrade
    \/ Degrade
    \/ CurrentVersion
    \/ Status
    \/ QueryVersions
    \/ QueryHead
    \/ QueryOldest
    \/ PruneAge
    \/ PruneIterations
    \/ AddRelease

Spec == Init /\ [][Next]_vars

(***************************************************************************)
(* The same engine with the two file system steps of _set observed one by  *)
(* one: a call that reaches os.symlink stops at pc = "rename", and Rename  *)
(* is its os.rename.  Nothing else of the process runs in between; the     *)
(* deployment tooling may add a release at any time.                       *)
(***************************************************************************)

Begin(op, arg, r) ==
    /\ Apply(r)
    /\ last' = Call(op, arg, 0, r)
    /\ pc' = IF r.exc = "none" THEN "rename" ELSE "idle"
    /\ UNCHANGED <<initialised, deleting>>

BeginInitialise ==
    /\ pc = "idle"
    /\ Begin("initialise", "", initialise_with("symlink", FS))

BeginSet ==
    /\ pc = "idle"
    /\ \E arg \in Names : Begin("set", arg, set_str("symlink", FS, arg))

BeginUpgrade ==
    /\ pc = "idle"
    /\ Begin("upgrade", "", upgrade_with("symlink", FS))

BeginDegrade ==
    /\ pc = "idle"
    /\ Begin("degrade", "", degrade_with("symlink", FS, FALSE))

Rename ==
    /\ pc = "rename"
    /\ LET r == os_rename(FS)
       IN  /\ Apply(r)
           /\ last' = [last EXCEPT !.exc = r.exc, !.msg = r.msg]
           /\ initialised' = (initialised \/ (last.op = "initialise" /\ r.exc = "none"))
    /\ pc' = "idle"
    /\ UNCHANGED deleting

NextAtomic ==
    \/ BeginInitialise
    \/ BeginSet
    \/ BeginUpgrade
    \/ BeginDegrade
    \/ Rename
    \/ AddRelease

SpecAtomic == Init /\ [][NextAtomic]_vars

(***************************************************************************)
(* Two processes on one jungle, with no lock between them: one runs        *)
(* set(), its os.symlink and os.rename observed one by one as in           *)
(* SpecAtomic; the other runs delete(), observed at two points: all its    *)
(* checks, up to the comparison with current_version(), and then its       *)
(* shutil.rmtree.  A delete() that raises in its checks changes nothing.   *)
(***************************************************************************)

DeleteCheck ==
    /\ deleting.pc = "idle"
    /\ \E arg \in Names :
         /\ delete(FS, arg).exc = "none"
         /\ deleting' = [pc |-> "rmtree", version |-> StrictVersion(arg),
                         seen |-> check_current(FS).ret, hit |-> FALSE]
    /\ UNCHANGED <<release, entries, current, current_new, last, initialised, pc>>

DeleteRemove ==
    /\ deleting.pc = "rmtree"
    /\ entries' = rmtree(FS, deleting.version).entries
    /\ deleting' = [deleting EXCEPT
                      !.pc = "idle",
                      !.hit = /\ check_current(FS).exc = "none"
                              /\ Cmp(check_current(FS).ret, deleting.version) = 0]
    /\ UNCHANGED <<release, current, current_new, last, initialised, pc>>

NextRace ==
    \/ BeginSet
    \/ Rename
    \/ DeleteCheck
    \/ DeleteRemove
    \/ AddRelease

SpecRace == Init /\ [][NextRace]_vars

(***************************************************************************)
(* prune_iterations with its while loop observed one iteration at a time,  *)
(* in a jungle that nothing else touches: BeginPrune is the call up to the *)
(* loop, PruneStep one test of the loop condition with the body that       *)
(* follows it.  A process that is running keeps running, hence the weak    *)
(* fairness on PruneStep.                                                  *)
(***************************************************************************)

BeginPrune ==
    /\ pc = "idle"
    /\ \E n \in -1..MaxIter :
         LET c == check_current(FS)
         IN  /\ last' = Call("prune_iterations", "", n, c)
             /\ pc' = IF c.exc = "none" THEN "prune" ELSE "idle"
    /\ UNCHANGED <<release, entries, current, current_new, initialised, deleting>>

PruneStep ==
    /\ pc = "prune"
    /\ \E o \in {oldest(FS)} : \E r \in {prune_iterations_step(FS, last.n, o)} :
         /\ Apply(r)
         /\ last' = [last EXCEPT !.exc = r.exc, !.msg = r.msg]
         /\ pc' = IF Len(versions(FS)) > last.n /\ r.exc = "none"
                  THEN "prune" ELSE "idle"
    /\ UNCHANGED <<initialised, deleting>>

NextPrune ==
    \/ BeginPrune
    \/ PruneStep

SpecPrune == Init /\ [][NextPrune]_vars /\ WF_vars(PruneStep)

(***************************************************************************)
(* The engine in an environment where os.symlink and os.rename may fail:   *)
(* every operation of Spec, and the four pointer-moving operations with    *)
(* one of the two system calls of _set raising OSError.                    *)
(***************************************************************************)

FailingInitialise ==
    /\ pc = "idle"
    /\ \E f \in Faults :
         LET r == initialise_with(f, FS)
         IN  /\ Apply(r)
             /\ last' = Call("initialise", "", 0, r)
    /\ UNCHANGED <<initialised, pc, deleting>>

FailingSet ==
    /\ pc = "idle"
    /\ \E f \in Faults, arg \in Names :
         LET r == set_str(f, FS, arg)
         IN  /\ Apply(r)
             /\ last' = Call("set", arg, 0, r)
    /\ UNCHANGED <<initialised, pc, deleting>>

FailingUpgrade ==
    /\ pc = "idle"
    /\ \E f \in Faults :
         LET r == upgrade_with(f, FS)
         IN  /\ Apply(r)
             /\ last' = Call("upgrade", "", 0, r)
    /\ UNCHANGED <<initialised, pc, deleting>>

FailingDegrade ==
    /\ pc = "idle"
    /\ \E f \in Faults :
         LET r == degrade_with(f, FS, FALSE)
         IN  /\ Apply(r)
             /\ last' = Call("degrade", "", 0, r)
    /\ UNCHANGED <<initialised, pc, deleting>>

NextFaults ==
    \/ Next
    \/ FailingInitialise
    \/ FailingSet
    \/ FailingUpgrade
    \/ FailingDegrade

SpecFaults == Init /\ [][NextFaults]_vars

(***************************************************************************)
(* The error kinds of the specification, as the exceptions of jungle.py.   *)
(***************************************************************************)

ErrorKind(call) ==
    CASE call.exc = "none" -> "ok"
      [] call.exc = "OSError" /\ call.msg = "No current exists" -> "NoCurrent"
      [] call.exc = "OSError" /\ call.msg = "is not a symlink" -> "NotASymlink"
      [] call.exc = "OSError" /\ call.msg = "does not point to something in release"
            -> "MalformedTarget"
      [] call.exc = "OSError" /\ call.msg = "does not point to a valid version"
            -> "InvalidVersion"
      [] call.exc = "OSError" /\ call.msg = "does not point to a valid directory"
            -> "DanglingPointer"
      [] call.exc = "OSError" /\ call.msg \in {"Will not delete current version",
                                               "I won't delete the current version"}
            -> "CannotDeleteCurrent"
      [] call.exc = "KeyError" -> "UnknownVersion"
      [] call.exc = "ValueError" /\ call.msg = "Not enough versions to rollback"
            -> "InsufficientVersions"
      [] call.exc = "ValueError" /\ call.msg = "max of empty sequence"
            -> "EmptyVersionSet"
      [] call.exc = "IndexError" /\ call.msg = "list index out of range"
            -> "EmptyVersionSet"
      [] call.exc = "SystemExit" /\ call.msg = "Current already exists"
            -> "AlreadyInitialized"
      [] call.exc = "SystemExit" /\ call.msg = "No release directory exists"
            -> "NoReleaseDir"
      [] call.exc = "SystemExit" /\ call.msg = "No versions in directory"
            -> "EmptyVersionSet"
      [] OTHER -> call.exc

Valid(fs) == check_current(fs).exc = "none"

CurrentOf(fs) == check_current(fs).ret

Disk == <<release, entries, current, current_new>>

MutatingOps == {"set", "delete", "upgrade", "degrade", "prune_age", "prune_iterations"}

(***************************************************************************)
(* Claims.                                                                 *)
(***************************************************************************)

\* C1: in a single-process run no step (initialise, set, upgrade, degrade,
\* delete, prune_age, prune_iterations, successful or failing) removes the
\* directory of the version `current` points to: if `current` validates
\* before the step, that version's directory is still in release/ after
\* it, and `current` still validates after it.
C1_CurrentNeverRemoved ==
    [][Valid(FS) => (str(CurrentOf(FS)) \in entries' /\ Valid(FS'))]_vars

\* A delete or prune call has just refused to remove the current version
\* while other versions are present.
C1_Witness ==
    /\ last.op \in {"delete", "prune_iterations"}
    /\ ErrorKind(last) = "CannotDeleteCurrent"
    /\ Cardinality(entries) > 1
    /\ Valid(FS)

\* C2: once initialise has succeeded, in every state between operations
\* (engine calls, and deployment tooling adding release directories)
\* check_current succeeds: `current` is a symbolic link to release/<v>, <v>
\* parses as a version and release/<v> is a directory.
C2_CurrentValidAfterInit ==
    initialised =>
        /\ Valid(FS)
        /\ current.kind = "link"
        /\ \E n \in entries : current.target = "release/" \o n /\ StrictVersion(n) # NoVersion

\* After initialise, a prune has just deleted the lower versions.
C2_Witness ==
    /\ initialised
    /\ last.op = "prune_iterations" /\ last.exc = "none" /\ last.n = 1
    /\ Cardinality(entries) = 1

\* The link text a pending set/upgrade/degrade is repointing `current` to.
NewTarget(call) ==
    "release/" \o (IF call.op = "degrade" THEN call.out ELSE str(call.ret))

\* C3: with _set taken as its two file system steps, a set, upgrade or
\* degrade on a jungle whose `current` validates never shows a reader
\* anything but the old or the new target: while the rename is pending
\* `current` is the old link, unchanged and still valid; the rename makes
\* it the link to the requested version, valid too; it is never absent.
C3_AtomicPointerUpdate ==
    [][/\ (pc' = "rename" /\ last'.op \in {"set", "upgrade", "degrade"})
            => (current' = current /\ Valid(FS'))
       /\ (pc = "rename" /\ pc' = "idle" /\ last.op \in {"set", "upgrade", "degrade"})
            => (/\ current' = Link(NewTarget(last))
                /\ Valid(FS')
                /\ last'.exc = "none")]_vars

\* A set is between its symlink and its rename, repointing `current` from
\* one version to another.
C3_Witness ==
    /\ pc = "rename"
    /\ last.op = "set"
    /\ current.kind = "link" /\ current_new.kind = "link"
    /\ current.target # current_new.target

\* C4: delete(v) with v equal to the validated current version fails with
\* CannotDeleteCurrent whatever else is in release/, and leaves the version
\* set and `current` unchanged.
C4_DeleteCurrentFails ==
    [][(/\ last'.op = "delete"
        /\ Valid(FS)
        /\ StrictVersion(last'.arg) # NoVersion
        /\ Cmp(StrictVersion(last'.arg), CurrentOf(FS)) = 0)
       => (/\ ErrorKind(last') = "CannotDeleteCurrent"
           /\ entries' = entries
           /\ current' = current)]_vars

\* delete was asked for the current version under another spelling of it,
\* with other versions present, and refused.
C4_Witness ==
    /\ last.op = "delete" /\ last.arg = "1.0.0"
    /\ current = Link("release/1.0")
    /\ ErrorKind(last) = "CannotDeleteCurrent"
    /\ Cardinality(entries) > 2

\* C5: when check_current fails, each of set, delete, upgrade, degrade,
\* prune_age and prune_iterations raises an error and changes nothing on
\* disk: `current`, `current.new` and release/ are as before.
C5_InvalidCurrentNoMutation ==
    [][(last'.op \in MutatingOps /\ ~Valid(FS))
       => (last'.exc # "none" /\ Disk' = Disk)]_vars

\* A prune was refused on a jungle whose `current` is a broken link while
\* release/ holds versions.
C5_Witness ==
    /\ last.op = "prune_iterations" /\ last.n = 0
    /\ last.exc # "none"
    /\ current = Link("release/2.0") /\ "2.0" \notin entries
    /\ Cardinality(entries) > 1

\* What the five checks, applied in the order stated, report for `current`.
C6_Expected ==
    IF current.kind = "none" THEN "NoCurrent"
    ELSE IF current.kind # "link" THEN "NotASymlink"
    ELSE IF ~StartsWithRelease(current.target) THEN "MalformedTarget"
    ELSE IF StrictVersion(Slice8(current.target)) = NoVersion THEN "InvalidVersion"
    ELSE IF ~(release /\ Slice8(current.target) \in entries) THEN "DanglingPointer"
    ELSE "ok"

\* C6: check_current applies five checks in order and reports the first
\* that fails as its own error: no `current` -> NoCurrent; not a symbolic
\* link -> NotASymlink; target not release/<v> -> MalformedTarget; <v> not
\* a version -> InvalidVersion; release/<v> not a directory ->
\* DanglingPointer (so a link to an absent release/<v> is a
\* DanglingPointer); otherwise it returns <v>.
C6_CheckCurrentOrder ==
    last.op = "current_version" =>
        /\ ErrorKind(last) = C6_Expected
        /\ (C6_Expected = "ok" => last.ret = StrictVersion(Slice8(current.target)))

\* C7: initialise on a jungle with no `current` (and no stale
\* current.new), an existing release/ and a non-empty version set succeeds
\* and leaves `current` a valid link to the maximum version present; an
\* initialise right after a successful one fails with AlreadyInitialized.
C7_InitialiseSetsHead ==
    [][/\ (/\ last'.op = "initialise"
           /\ current.kind = "none" /\ current_new.kind = "none"
           /\ release /\ versions(FS) # <<>>)
          => (/\ last'.exc = "none"
              /\ current'.kind = "link"
              /\ Valid(FS')
              /\ Cmp(CurrentOf(FS'), head(FS).ret) = 0)
       /\ (last.op = "initialise" /\ last.exc = "none" /\ last'.op = "initialise")
          => ErrorKind(last') = "AlreadyInitialized"]_vars

\* C8: initialise fails without changing anything when its preconditions
\* do not hold: with any `current` entry (valid link, broken link, file or
\* directory) it fails with AlreadyInitialized; else without release/ with
\* NoReleaseDir; else without a parseable version with EmptyVersionSet.
C8_InitialiseFailsCleanly ==
    [][last'.op = "initialise" =>
        /\ (current.kind # "none")
              => (ErrorKind(last') = "AlreadyInitialized" /\ Disk' = Disk)
        /\ (current.kind = "none" /\ ~release)
              => (ErrorKind(last') = "NoReleaseDir" /\ Disk' = Disk)
        /\ (current.kind = "none" /\ release /\ versions(FS) = <<>>)
              => (ErrorKind(last') = "EmptyVersionSet" /\ Disk' = Disk)]_vars

\* C9: on a jungle whose `current` validates (and without a stale
\* current.new), for every directory name v of release/ that parses as a
\* version, set(v) succeeds, and a current_version() right after a
\* successful set returns the version that was set.
C9_SetRoundTrip ==
    [][/\ (/\ last'.op = "set"
           /\ Valid(FS) /\ current_new.kind = "none"
           /\ last'.arg \in entries /\ StrictVersion(last'.arg) # NoVersion)
          => (/\ last'.exc = "none"
              /\ Valid(FS')
              /\ Cmp(CurrentOf(FS'), StrictVersion(last'.arg)) = 0)
       /\ (last.op = "set" /\ last.exc = "none" /\ last'.op = "current_version")
          => (last'.exc = "none" /\ Cmp(last'.ret, StrictVersion(last.arg)) = 0)]_vars

\* Whether some entry of release/ parses to version v.
InVersionSet(fs, v) ==
    \E i \in 1..Len(versions(fs)) : Cmp(versions(fs)[i], v) = 0

\* C10: set(v) on a jungle whose `current` validates, for a version v that
\* no entry of release/ parses to, fails with UnknownVersion (KeyError),
\* leaves `current` on its previous target and creates no current.new.
C10_SetUnknownVersion ==
    [][(/\ last'.op = "set"
        /\ Valid(FS)
        /\ StrictVersion(last'.arg) # NoVersion
        /\ ~InVersionSet(FS, StrictVersion(last'.arg)))
       => (/\ ErrorKind(last') = "UnknownVersion"
           /\ current' = current
           /\ current_new' = current_new
           /\ entries' = entries)]_vars

\* set("2.0") was refused on a jungle on 1.0 that holds no 2.0.
C10_Witness ==
    /\ last.op = "set" /\ last.arg = "2.0"
    /\ ErrorKind(last) = "UnknownVersion"
    /\ current = Link("release/1.0")
    /\ current_new.kind = "none"
    /\ "2.0" \notin entries

\* The entries of release/ that parse as versions.
VersionNames(fs) == {n \in fs.entries : StrictVersion(n) # NoVersion}

\* v is a version of release/ that none of its versions exceeds.
IsMax(fs, v) ==
    /\ InVersionSet(fs, v)
    /\ \A n \in VersionNames(fs) : Cmp(StrictVersion(n), v) <= 0

\* v is a version of release/ that none of its versions is below.
IsMin(fs, v) ==
    /\ InVersionSet(fs, v)
    /\ \A n \in VersionNames(fs) : Cmp(StrictVersion(n), v) >= 0

\* C11: upgrade() on a jungle whose `current` validates (and without a
\* stale current.new) succeeds like set(head()): it returns the maximum
\* version present, leaves `current` a valid link to it, and a status()
\* right after a successful upgrade returns "current".
C11_Step ==
    /\ (last'.op = "upgrade" /\ Valid(FS) /\ current_new.kind = "none")
          => (/\ last'.exc = "none"
              /\ IsMax(FS, last'.ret)
              /\ Valid(FS')
              /\ Cmp(CurrentOf(FS'), last'.ret) = 0
              /\ entries' = entries)
    /\ (last.op = "upgrade" /\ last.exc = "none" /\ last'.op = "status")
          => last'.out = "current"

C11_UpgradeSetsHead == [][C11_Step]_vars

\* v is the last but one of the versions of release/ in ascending order
\* (counting every entry): at most one entry is above it and at least two
\* are not below it.
IsSecond(fs, v) ==
    /\ InVersionSet(fs, v)
    /\ Cardinality({n \in VersionNames(fs) : Cmp(StrictVersion(n), v) > 0}) <= 1
    /\ Cardinality({n \in VersionNames(fs) : Cmp(StrictVersion(n), v) >= 0}) >= 2

\* C12: degrade() on a jungle whose `current` validates (and without a
\* stale current.new): with at least two versions it sets `current` to the
\* second-highest version and returns it, whichever version was current;
\* with fewer than two it fails with InsufficientVersions and leaves
\* `current` unchanged.
C12_Step ==
    (last'.op = "degrade" /\ last'.arg = "" /\ Valid(FS) /\ current_new.kind = "none")
    => IF Cardinality(VersionNames(FS)) >= 2
       THEN /\ last'.exc = "none"
            /\ StrictVersion(last'.out) # NoVersion
            /\ IsSecond(FS, StrictVersion(last'.out))
            /\ Valid(FS')
            /\ Cmp(CurrentOf(FS'), StrictVersion(last'.out)) = 0
       ELSE /\ ErrorKind(last') = "InsufficientVersions"
            /\ current' = current

C12_DegradeSetsSecond == [][C12_Step]_vars

C14_StatusReport ==
    [][/\ (last'.op = "status" /\ Valid(FS))
          => (/\ last'.exc = "none"
              /\ last'.out \in {"current", "degraded"}
              /\ (last'.out = "current") <=> IsMax(FS, CurrentOf(FS))
              /\ Disk' = Disk)
       /\ (/\ last.op = "mkdir" /\ Valid(FS)
           /\ StrictVersion(last.arg) # NoVersion
           /\ Cmp(StrictVersion(last.arg), CurrentOf(FS)) > 0
           /\ last'.op = "status")
          => last'.out = "degraded"]_vars

\* status() has answered "degraded" right where a lower version than the
\* current one is present too.
C14_Witness ==
    /\ last.op = "status" /\ last.out = "degraded"
    /\ Valid(FS)
    /\ \E n \in VersionNames(FS) : Cmp(StrictVersion(n), CurrentOf(FS)) < 0
    /\ \E n \in VersionNames(FS) : Cmp(StrictVersion(n), CurrentOf(FS)) > 0

\* The version set: the versions that the entries of release/ parse to.
VersionSet(fs) == {StrictVersion(n) : n \in VersionNames(fs)}

\* C15: prune_age(t) on a valid jungle succeeds and deletes exactly the
\* versions that are not current and are more than t days old: the version
\* set afterwards is the one before minus those, a version exactly t days
\* old and the current version stay, and `current` is unchanged.
C15_Step ==
    (last'.op = "prune_age" /\ Valid(FS))
    => (/\ last'.exc = "none"
        /\ VersionSet(FS') =
             VersionSet(FS) \ {v \in VersionSet(FS) :
                                 /\ Cmp(v, CurrentOf(FS)) # 0
                                 /\ last'.days[str(v)] > last'.n}
        /\ current' = current)

C15_PruneAgeExact == [][C15_Step]_vars

\* The n highest versions of the version set.
Highest(fs, n) ==
    {v \in VersionSet(fs) :
       Cardinality({w \in VersionSet(fs) : Cmp(w, v) > 0}) < n}

\* C16: prune_iterations(n) on a valid jungle whose current version is
\* among the n highest succeeds and leaves `current` alone; it leaves
\* exactly the n highest versions when more than n were present and
\* deletes nothing when at most n were.
C16_Step ==
    (/\ last'.op = "prune_iterations" /\ Valid(FS)
     /\ CurrentOf(FS) \in Highest(FS, last'.n))
    => (/\ last'.exc = "none"
        /\ current' = current
        /\ IF Cardinality(VersionSet(FS)) > last'.n
           THEN VersionSet(FS') = Highest(FS, last'.n)
           ELSE entries' = entries)

C16_PruneIterationsKeepsHighest == [][C16_Step]_vars

\* The versions of the version set that are not lower than v.
NotLower(fs, v) == {w \in VersionSet(fs) : Cmp(w, v) >= 0}

\* C17: prune_iterations(n) on a valid jungle aborts with
\* CannotDeleteCurrent exactly when deleting lowest-first down to n versions
\* would reach the current version, i.e. when more than n versions are not
\* lower than current; it never deletes a version higher than current, and
\* when it aborts the versions left are exactly those not lower than
\* current, with `current` unchanged.
C17_Step ==
    (last'.op = "prune_iterations" /\ Valid(FS))
    => (/\ (ErrorKind(last') = "CannotDeleteCurrent")
              <=> (Cardinality(NotLower(FS, CurrentOf(FS))) > last'.n)
        /\ NotLower(FS, CurrentOf(FS)) \subseteq VersionSet(FS')
        /\ (ErrorKind(last') = "CannotDeleteCurrent")
              => (/\ VersionSet(FS') = NotLower(FS, CurrentOf(FS))
                  /\ current' = current))

C17_PruneIterationsAborts == [][C17_Step]_vars

\* C18: versions() yields one version for every entry of release/ that
\* parses as a version and nothing else (names such as bin are dropped),
\* in ascending version order: no version comes before a lower one, so the
\* first is the one oldest() returns and the last the one head() returns.
C18_Step ==
    (last'.op = "versions" /\ release)
    => LET l == last'.list
       IN  /\ last'.exc = "none"
           /\ Len(l) = Cardinality(VersionNames(FS))
           /\ {l[i] : i \in 1..Len(l)} = VersionSet(FS)
           /\ \A i, j \in 1..Len(l) : i < j => Cmp(l[i], l[j]) <= 0
           /\ l # <<>> => (IsMin(FS, l[1]) /\ IsMax(FS, l[Len(l)]))
           /\ Disk' = Disk

C18_VersionsAscending == [][C18_Step]_vars

\* C19: on a valid jungle delete(v) of a version of the version set other
\* than the current one succeeds, takes exactly v out of the version set
\* and leaves `current` and every other entry alone; delete(v) of a
\* version that is not in the version set fails with UnknownVersion and
\* removes nothing.
C19_Step ==
    (last'.op = "delete" /\ Valid(FS) /\ StrictVersion(last'.arg) # NoVersion)
    => LET v == StrictVersion(last'.arg)
       IN  /\ (InVersionSet(FS, v) /\ Cmp(v, CurrentOf(FS)) # 0)
                => (/\ last'.exc = "none"
                    /\ VersionSet(FS') = VersionSet(FS) \ {v}
                    /\ (entries \ entries') \subseteq {n \in Names : StrictVersion(n) = v}
                    /\ entries' \subseteq entries
                    /\ current' = current)
           /\ ~InVersionSet(FS, v)
                => (ErrorKind(last') = "UnknownVersion" /\ Disk' = Disk)

C19_DeleteExact == [][C19_Step]_vars

\* C20: with no version in release/ (it is empty or holds only names that
\* do not parse) head() and oldest() fail with EmptyVersionSet and return
\* nothing; with at least one version head() returns the maximum and
\* oldest() the minimum of the version set. Neither changes the disk.
C20_HeadOldest ==
    [][(last'.op \in {"head", "oldest"} /\ release)
       => (/\ IF VersionNames(FS) = {}
              THEN ErrorKind(last') = "EmptyVersionSet" /\ last'.ret = NoVersion
              ELSE /\ last'.exc = "none"
                   /\ last'.op = "head" => IsMax(FS, last'.ret)
                   /\ last'.op = "oldest" => IsMin(FS, last'.ret)
           /\ Disk' = Disk)]_vars

\* head() has failed on a release/ that holds only a name that is not a
\* version.
C20_Witness ==
    /\ last.op = "head" /\ ErrorKind(last) = "EmptyVersionSet"
    /\ release /\ entries = {"bin"}

\* The jungle without a left-over current.new.
Clean(fs) == [fs EXCEPT !.current_new = None]

\* The engine operation that a recorded call of a pointer-moving operation
\* names, applied to fs.
PointerOp(fs, call) ==
    CASE call.op = "set" -> set(fs, call.arg)
      [] call.op = "upgrade" -> upgrade(fs)
      [] call.op = "degrade" -> degrade(fs, FALSE)
      [] OTHER -> initialise(fs)

PointerOps == {"set", "upgrade", "degrade", "initialise"}

\* C21: a current.new left over from an interrupted pointer update does
\* not stop the next set/upgrade/degrade/initialise: a call that succeeds
\* on the jungle without the left-over succeeds with it too, `current`
\* ends on the same requested version, and no current.new remains.
C21_Step ==
    (/\ current_new.kind # "none"
     /\ last'.op \in PointerOps /\ last'.arg # "--dry-run"
     /\ PointerOp(Clean(FS), last').exc = "none")
    => (/\ last'.exc = "none"
        /\ current' = PointerOp(Clean(FS), last').fs.current
        /\ current_new' = None)

C21_StaleNewOverwritten == [][C21_Step]_vars

\* C22: a failure inside the pointer update leaves the old pointer as it
\* was: when creating current.new fails (it is there already, or the
\* environment refuses) nothing on disk has changed; when the rename fails
\* `current` and release/ are unchanged and only current.new, the staged
\* link, has been created; and no failing pointer-moving call moves
\* `current`.
C22_FailureKeepsPointer ==
    [][(last'.op \in PointerOps)
       => (/\ last'.msg \in {"File exists", "Permission denied"} => Disk' = Disk
           /\ last'.msg \in {"Operation not permitted", "Is a directory"}
                => (/\ current' = current /\ release' = release /\ entries' = entries
                    /\ current_new = None /\ current_new'.kind = "link")
           /\ last'.exc # "none" => current' = current)]_vars

\* The rename of a set has failed: `current` is the valid old link and the
\* staged current.new points at another version.
C22_Witness ==
    /\ last.op = "set" /\ last.msg = "Operation not permitted"
    /\ Valid(FS)
    /\ current_new.kind = "link"
    /\ current_new.target # current.target

\* C23: with a set() and a delete() running in two processes, `current`
\* can end up pointing at a removed version, and only through their
\* interleaving: delete's check always sees a current version other than
\* the one it goes on to remove, and its rmtree does not move `current`;
\* a step that turns a valid `current` into a dangling one is either the
\* rmtree of a version that set() made current after delete's check, or
\* the rename of a set() whose staged version was removed meanwhile.
C23_RaceOnly ==
    [][LET removal == deleting.pc = "rmtree" /\ deleting'.pc = "idle"
           rename == pc = "rename" /\ pc' = "idle"
       IN  /\ removal => (/\ Cmp(deleting.seen, deleting.version) # 0
                          /\ current' = current)
           /\ (Valid(FS) /\ ~Valid(FS'))
                => \/ removal /\ Cmp(CurrentOf(FS), deleting.version) = 0
                   \/ rename /\ ~Resolves(FS, current_new.target)]_vars

\* delete(v) has removed release/<v> after set(v) made v current: `current`
\* points at the removed version.
C23_Witness ==
    /\ deleting.pc = "idle" /\ deleting.hit
    /\ pc = "idle" /\ last.op = "set" /\ last.exc = "none"
    /\ current = Link("release/" \o str(deleting.version))
    /\ str(deleting.version) \notin entries
    /\ ~Valid(FS)

DeletingOps == {"delete", "prune_age", "prune_iterations"}

ReadingOps == {"status", "current_version", "versions", "head", "oldest"}

\* C24: frame conditions.  initialise, set, upgrade and degrade, whether
\* they return or raise, leave release/ and its entries as they were;
\* delete, prune_age and prune_iterations leave `current` and current.new
\* as they were; status, current_version, versions, head and oldest leave
\* the whole disk as it was.
C24_Frames ==
    [][/\ last'.op \in PointerOps => (entries' = entries /\ release' = release)
       /\ last'.op \in DeletingOps
            => (current' = current /\ current_new' = current_new /\ release' = release)
       /\ last'.op \in ReadingOps => Disk' = Disk]_vars

\* An upgrade has moved `current` to a head above other versions, all of
\* which are still there.
C24_Witness ==
    /\ last.op = "upgrade" /\ last.exc = "none"
    /\ Valid(FS) /\ IsMax(FS, CurrentOf(FS))
    /\ Cardinality(VersionSet(FS)) >= 3

\* The loop of prune_iterations is running.
InPruneLoop == pc = "prune"

\* The loop of prune_iterations has ended as C25 says it ends.
PruneEndsWell ==
    /\ pc = "idle" /\ last.op = "prune_iterations"
    /\ \/ last.exc = "none" /\ Cardinality(VersionSet(FS)) <= last.n
       \/ ErrorKind(last) = "CannotDeleteCurrent"

\* C25: on a valid jungle that nothing else touches, prune_iterations(n)
\* terminates for every n, negative and 0 included, and it ends either
\* with at most n versions remaining or with CannotDeleteCurrent.
C25_PruneTerminates == InPruneLoop ~> PruneEndsWell

====
